---- MODULE Spec2Model ----
(***************************************************************************)
(* Model of spreet's command-line layer (src/bin/spreet/cli.rs).           *)
(*                                                                         *)
(* The struct Cli declares the schema; the four validators is_dir,         *)
(* is_positive, is_non_negative and is_max_6 turn one raw string into a    *)
(* typed value or a message.  The derive(Parser) parser walks the argument *)
(* vector left to right, runs the value parser of an argument as soon as   *)
(* its value is read, stops at the first error, and only after the last    *)
(* token checks the groups (conflicts) and then the requirements.          *)
(*                                                                         *)
(* Strings handed to the integer validators are sequences of one-character *)
(* strings, so that u8::from_str is computed digit by digit.  An option    *)
(* and its value are one token, the `--name=value` form.                   *)
(***************************************************************************)
EXTENDS Integers, Sequences, FiniteSets, TLC

VARIABLES argv, idx, order, vals, input, output, npos, result, err, cfg

vars == <<argv, idx, order, vals, input, output, npos, result, err, cfg>>

-----------------------------------------------------------------------------
(* Bounds of the explored argument vectors.                                *)

MaxOpts == 2

(* Width of the integer fields (u8) and the absent Option / unset value.   *)
U8Max == 255
None == -1

-----------------------------------------------------------------------------
(* The schema: struct Cli.                                                 *)

Flags == {"retina", "unique", "recursive", "crop", "include_center",
          "minify_index_file", "simple_index_file", "sdf"}

NumOpts == {"ratio", "spacing", "oxipng", "zopfli"}

DefaultRatio == 1
DefaultSpacing == 0

Groups_retina_ungrouped == [pixel_ratio |-> {"ratio"}, optlevel |-> {"oxipng", "zopfli"}]

Groups_oxipng_ungrouped == [pixel_ratio |-> {"ratio", "retina"}, optlevel |-> {"zopfli"}]

(* Members of each argument group; a group admits one member at a time.    *)
Groups == [pixel_ratio |-> {"ratio", "retina"}, optlevel |-> {"oxipng", "zopfli"}]

GroupNames == {"pixel_ratio", "optlevel"}

Requires_nothing(id) == {}

(* requires("crop") on include_center.                                     *)
Requires(id) == IF id = "include_center" THEN {"crop"} ELSE {}

(* Arguments without a default that are not Option: the two positionals.   *)
RequiredArgs == {"input", "output"}

-----------------------------------------------------------------------------
(* The file system the directory check reads.                              *)

Paths == {"icons", "logo.svg", "missing"}

FsKind(p) == CASE p = "icons" -> "dir"
               [] p = "logo.svg" -> "file"
               [] OTHER -> "absent"

-----------------------------------------------------------------------------
(* Result<T, String>.                                                      *)

Ok(v) == [ok |-> TRUE, val |-> v, msg |-> ""]
Err(m) == [ok |-> FALSE, val |-> None, msg |-> m]

(* u8::from_str: an empty string, a lone sign and any non-digit are        *)
(* errors, a leading '+' is skipped, '-' is not a digit of an unsigned     *)
(* type, and the value is accumulated with checked arithmetic.             *)
DigitChars == <<"0", "1", "2", "3", "4", "5", "6", "7", "8", "9">>

IsDigit(c) == \E d \in 1..10 : DigitChars[d] = c

DigitVal(c) == (CHOOSE d \in 1..10 : DigitChars[d] = c) - 1

RECURSIVE accumulate(_, _)
accumulate(digits, acc) ==
    IF digits = <<>> THEN Ok(acc)
    ELSE IF ~IsDigit(Head(digits)) THEN Err("invalid digit found in string")
    ELSE IF acc * 10 > U8Max THEN Err("number too large to fit in target type")
    ELSE IF acc * 10 + DigitVal(Head(digits)) > U8Max
         THEN Err("number too large to fit in target type")
    ELSE accumulate(Tail(digits), acc * 10 + DigitVal(Head(digits)))

RECURSIVE accumulate_wrapping(_, _)
accumulate_wrapping(digits, acc) ==
    IF digits = <<>> THEN Ok(acc)
    ELSE IF ~IsDigit(Head(digits)) THEN Err("invalid digit found in string")
    ELSE accumulate_wrapping(Tail(digits), (acc * 10 + DigitVal(Head(digits))) % (U8Max + 1))

from_str_u8_wrapping(s) ==
    IF s = <<>> THEN Err("cannot parse integer from empty string")
    ELSE IF Len(s) = 1 /\ Head(s) \in {"+", "-"} THEN Err("invalid digit found in string")
    ELSE IF Head(s) = "+" THEN accumulate_wrapping(Tail(s), 0)
    ELSE accumulate_wrapping(s, 0)

from_str_u8(s) ==
    IF s = <<>> THEN Err("cannot parse integer from empty string")
    ELSE IF Len(s) = 1 /\ Head(s) \in {"+", "-"} THEN Err("invalid digit found in string")
    ELSE IF Head(s) = "+" THEN accumulate(Tail(s), 0)
    ELSE accumulate(s, 0)

-----------------------------------------------------------------------------
(* The four validators.                                                    *)

is_dir_exists(p) ==
    IF FsKind(p) # "absent" THEN Ok(p) ELSE [ok |-> FALSE, val |-> p, msg |-> "must be an existing directory"]

is_dir(p) ==
    IF FsKind(p) = "dir" THEN Ok(p) ELSE [ok |-> FALSE, val |-> p, msg |-> "must be an existing directory"]

is_positive_accepts_zero(s) ==
    LET r == from_str_u8(s) IN
    IF ~r.ok THEN Err(r.msg)
    ELSE IF r.val >= 0 THEN Ok(r.val)
    ELSE Err("must be greater than one")

is_positive(s) ==
    LET r == from_str_u8(s) IN
    IF ~r.ok THEN Err(r.msg)
    ELSE IF r.val > 0 THEN Ok(r.val)
    ELSE Err("must be greater than one")

is_non_negative_or_default(s) ==
    LET r == from_str_u8(s) IN
    IF ~r.ok THEN Ok(0)
    ELSE Ok(r.val)

is_non_negative(s) ==
    LET r == from_str_u8(s) IN
    IF ~r.ok THEN Err("must be a non-negative number")
    ELSE Ok(r.val)

is_max_6_exclusive(s) ==
    LET r == from_str_u8(s) IN
    IF ~r.ok THEN Err(r.msg)
    ELSE IF r.val < 6 THEN Ok(r.val)
    ELSE Err("must be a number no more than 6")

is_max_6(s) ==
    LET r == from_str_u8(s) IN
    IF ~r.ok THEN Err(r.msg)
    ELSE IF r.val <= 6 THEN Ok(r.val)
    ELSE Err("must be a number no more than 6")

ValueParser_lenient(id, s) ==
    LET r == CASE id = "ratio" -> is_positive(s)
               [] id = "zopfli" -> is_positive(s)
               [] id = "spacing" -> is_non_negative(s)
               [] id = "oxipng" -> is_max_6(s)
    IN IF r.ok THEN r ELSE Ok(None)

(* value_parser of each option.                                            *)
ValueParser(id, s) ==
    CASE id = "ratio" -> is_positive(s)
      [] id = "zopfli" -> is_positive(s)
      [] id = "spacing" -> is_non_negative(s)
      [] id = "oxipng" -> is_max_6(s)

-----------------------------------------------------------------------------
(* Tokens of the argument vector.                                          *)

PosTok(p) == [kind |-> "pos", id |-> "", val |-> <<>>, path |-> p]
FlagTok(f) == [kind |-> "flag", id |-> f, val |-> <<>>, path |-> ""]
OptTok(o, s) == [kind |-> "opt", id |-> o, val |-> s, path |-> ""]

(* Errors of the parser, by clap's ErrorKind.  `arg` is the argument the   *)
(* error is about, `with` the arguments it conflicts with or that are      *)
(* missing, `msg` the validator's message.                                 *)
NoErr == [kind |-> "None", arg |-> "", with |-> {}, msg |-> ""]
ValueValidation(a, m) == [kind |-> "ValueValidation", arg |-> a, with |-> {}, msg |-> m]
ArgumentConflict(a, others) == [kind |-> "ArgumentConflict", arg |-> a, with |-> others, msg |-> ""]
MissingRequiredArgument(missing) ==
    [kind |-> "MissingRequiredArgument", arg |-> "", with |-> missing, msg |-> ""]
UnknownArgument == [kind |-> "UnknownArgument", arg |-> "", with |-> {}, msg |-> ""]

Range(s) == {s[i] : i \in 1..Len(s)}

(* Arguments a matched argument conflicts with: the other members of the   *)
(* groups it belongs to.                                                   *)
ConflictsOf(id) == UNION {Groups[g] \ {id} : g \in {h \in GroupNames : id \in Groups[h]}}

(* validate_conflicts: the first argument given on the command line that   *)
(* has a conflicting argument also given.  Defaults do not count.          *)
FirstConflict(ord) ==
    LET bad == {i \in 1..Len(ord) : ConflictsOf(ord[i]) \cap Range(ord) # {}} IN
    IF bad = {} THEN 0 ELSE CHOOSE i \in bad : \A j \in bad : i <= j

(* validate_required: required arguments not given, and the requirements   *)
(* of the arguments that are given.                                        *)
MissingRequired(ord) ==
    (RequiredArgs \cup UNION {Requires(id) : id \in Range(ord)}) \ Range(ord)

BuildCli_ratio_ignored(ord, v, inp, out) ==
    [input |-> inp,
     output |-> out,
     ratio |-> DefaultRatio,
     retina |-> "retina" \in Range(ord),
     unique |-> "unique" \in Range(ord),
     recursive |-> "recursive" \in Range(ord),
     crop |-> "crop" \in Range(ord),
     include_center |-> "include_center" \in Range(ord),
     spacing |-> IF v["spacing"] = None THEN DefaultSpacing ELSE v["spacing"],
     oxipng |-> v["oxipng"],
     zopfli |-> v["zopfli"],
     minify_index_file |-> "minify_index_file" \in Range(ord),
     simple_index_file |-> "simple_index_file" \in Range(ord),
     sdf |-> "sdf" \in Range(ord)]

(* Populating struct Cli from the matches, defaults filled in.             *)
BuildCli(ord, v, inp, out) ==
    [input |-> inp,
     output |-> out,
     ratio |-> IF v["ratio"] = None THEN DefaultRatio ELSE v["ratio"],
     retina |-> "retina" \in Range(ord),
     unique |-> "unique" \in Range(ord),
     recursive |-> "recursive" \in Range(ord),
     crop |-> "crop" \in Range(ord),
     include_center |-> "include_center" \in Range(ord),
     spacing |-> IF v["spacing"] = None THEN DefaultSpacing ELSE v["spacing"],
     oxipng |-> v["oxipng"],
     zopfli |-> v["zopfli"],
     minify_index_file |-> "minify_index_file" \in Range(ord),
     simple_index_file |-> "simple_index_file" \in Range(ord),
     sdf |-> "sdf" \in Range(ord)]

(* The pixel ratio the caller of the parser renders with.                  *)
EffectiveRatio(c) == IF c.retina THEN 2 ELSE c.ratio

-----------------------------------------------------------------------------
(* Argument vectors explored.                                              *)

MaxLen == 3

Chars == {"0", "1", "2", "5", "6", "7", "+", "-", "x"}

GenValues == {<<"0">>, <<"3">>, <<"7">>, <<"2", "5", "6">>, <<"x">>}

GenItems == {FlagTok(f) : f \in Flags} \cup {OptTok(o, s) : o \in NumOpts, s \in GenValues}

PosToks == {PosTok(p) : p \in Paths}

(* Positionals before or after the options, and single-option probes with  *)
(* an arbitrary value string.                                              *)
GeneralVector(v) ==
    \E n \in 0..2, m \in 0..MaxOpts :
        \E p \in [1..n -> PosToks], o \in [1..m -> GenItems] :
            v = p \o o \/ v = o \o p

ProbeVector(v) ==
    \E q \in Paths, o \in NumOpts, n \in 0..MaxLen :
        \E s \in [1..n -> Chars] :
            v = <<PosTok("icons"), PosTok(q), OptTok(o, s)>>

-----------------------------------------------------------------------------
(* The parser.                                                             *)

Init ==
    /\ GeneralVector(argv) \/ ProbeVector(argv)
    /\ idx = 1
    /\ order = <<>>
    /\ vals = [o \in NumOpts |-> None]
    /\ input = ""
    /\ output = ""
    /\ npos = 0
    /\ result = "running"
    /\ err = NoErr
    /\ cfg = <<>>

Fail(e) ==
    /\ result' = "err"
    /\ err' = e
    /\ UNCHANGED <<argv, idx, order, vals, input, output, npos, cfg>>

(* A positional token: the first is `input` (value_parser = is_dir), the   *)
(* second `output`, a third is not part of the schema.                     *)
ParsePositional ==
    /\ result = "running"
    /\ idx <= Len(argv)
    /\ argv[idx].kind = "pos"
    /\ LET p == argv[idx].path IN
       CASE npos = 0 ->
              IF is_dir(p).ok
              THEN /\ input' = is_dir(p).val
                   /\ order' = Append(order, "input")
                   /\ npos' = 1
                   /\ idx' = idx + 1
                   /\ UNCHANGED <<argv, vals, output, result, err, cfg>>
              ELSE Fail(ValueValidation("input", is_dir(p).msg))
         [] npos = 1 ->
              /\ output' = p
              /\ order' = Append(order, "output")
              /\ npos' = 2
              /\ idx' = idx + 1
              /\ UNCHANGED <<argv, vals, input, result, err, cfg>>
         [] OTHER -> Fail(UnknownArgument)

(* A boolean flag (ArgAction::SetTrue): given twice is an error.           *)
ParseFlag ==
    /\ result = "running"
    /\ idx <= Len(argv)
    /\ argv[idx].kind = "flag"
    /\ LET f == argv[idx].id IN
       IF f \in Range(order)
       THEN Fail(ArgumentConflict(f, {f}))
       ELSE /\ order' = Append(order, f)
            /\ idx' = idx + 1
            /\ UNCHANGED <<argv, vals, input, output, npos, result, err, cfg>>

(* An option with a value (ArgAction::Set): given twice is an error,       *)
(* otherwise its value parser runs on the raw value at once.               *)
ParseOption ==
    /\ result = "running"
    /\ idx <= Len(argv)
    /\ argv[idx].kind = "opt"
    /\ LET o == argv[idx].id
           r == ValueParser(o, argv[idx].val) IN
       IF o \in Range(order)
       THEN Fail(ArgumentConflict(o, {o}))
       ELSE IF ~r.ok
       THEN Fail(ValueValidation(o, r.msg))
       ELSE /\ vals' = [vals EXCEPT ![o] = r.val]
            /\ order' = Append(order, o)
            /\ idx' = idx + 1
            /\ UNCHANGED <<argv, input, output, npos, result, err, cfg>>

(* After the last token: conflicts, then requirements, then the struct.    *)
Finish ==
    /\ result = "running"
    /\ idx > Len(argv)
    /\ LET c == FirstConflict(order) IN
       IF c # 0
       THEN Fail(ArgumentConflict(order[c], ConflictsOf(order[c]) \cap Range(order)))
       ELSE IF MissingRequired(order) # {}
       THEN Fail(MissingRequiredArgument(MissingRequired(order)))
       ELSE /\ result' = "ok"
            /\ cfg' = <<BuildCli(order, vals, input, output)>>
            /\ UNCHANGED <<argv, idx, order, vals, input, output, npos, err>>

Next == ParsePositional \/ ParseFlag \/ ParseOption \/ Finish

Spec == Init /\ [][Next]_vars

TypeOK ==
    /\ result \in {"running", "ok", "err"}
    /\ idx \in 1..(Len(argv) + 1)
    /\ npos \in 0..2
    /\ \A o \in NumOpts : vals[o] \in {None} \cup 0..U8Max

-----------------------------------------------------------------------------
(* Reading of the argument vector used to state the properties: what was   *)
(* supplied, and what a value string denotes as a mathematical integer.    *)

Done == result # "running"

Indexes(id) == {i \in 1..Len(argv) : argv[i].kind # "pos" /\ argv[i].id = id}

Supplied(id) == Indexes(id) # {}

NoRepeat == \A id \in Flags \cup NumOpts : Cardinality(Indexes(id)) <= 1

PosIndexes == {i \in 1..Len(argv) : argv[i].kind = "pos"}

FirstPos == CHOOSE i \in PosIndexes : \A j \in PosIndexes : i <= j

SecondPos == CHOOSE i \in PosIndexes \ {FirstPos} : \A j \in PosIndexes \ {FirstPos} : i <= j

AllDigits(s) == s # <<>> /\ \A i \in 1..Len(s) : IsDigit(s[i])

IsUIntString(s) == AllDigits(s) \/ (Len(s) >= 2 /\ s[1] = "+" /\ AllDigits(Tail(s)))

IsIntString(s) == IsUIntString(s) \/ (Len(s) >= 2 /\ s[1] = "-" /\ AllDigits(Tail(s)))

RECURSIVE DigitsVal(_)
DigitsVal(s) ==
    IF s = <<>> THEN 0
    ELSE DigitsVal(SubSeq(s, 1, Len(s) - 1)) * 10 + DigitVal(s[Len(s)])

IntVal(s) ==
    IF s[1] = "+" THEN DigitsVal(Tail(s))
    ELSE IF s[1] = "-" THEN 0 - DigitsVal(Tail(s))
    ELSE DigitsVal(s)

(* The declared bound of each numeric field, within the field's width.     *)
InBound(o, n) ==
    CASE o = "ratio" -> n \in 1..U8Max
      [] o = "zopfli" -> n \in 1..U8Max
      [] o = "spacing" -> n \in 0..U8Max
      [] o = "oxipng" -> n \in 0..6

ValidValue(o, s) == IsUIntString(s) /\ InBound(o, IntVal(s))

BadValueIndexes == {i \in 1..Len(argv) : argv[i].kind = "opt" /\ ~ValidValue(argv[i].id, argv[i].val)}

BadInput == PosIndexes # {} /\ FsKind(argv[FirstPos].path) # "dir"

PixelRatioConflict == Supplied("ratio") /\ Supplied("retina")

OptlevelConflict == Supplied("oxipng") /\ Supplied("zopfli")

MissingCrop == Supplied("include_center") /\ ~Supplied("crop")

(* Every token is accepted on its own: no option twice, every value valid, *)
(* at most two positionals and the first of them a directory.              *)
TokensAccepted ==
    /\ NoRepeat
    /\ BadValueIndexes = {}
    /\ Cardinality(PosIndexes) <= 2
    /\ ~BadInput

WellFormed ==
    /\ TokensAccepted
    /\ Cardinality(PosIndexes) = 2
    /\ ~PixelRatioConflict
    /\ ~OptlevelConflict
    /\ ~MissingCrop

(* The error classes of the tool's diagnostics.                            *)
IsParseError(e) ==
    /\ e.kind = "ValueValidation"
    /\ e.msg \in {"cannot parse integer from empty string", "invalid digit found in string",
                  "number too large to fit in target type", "must be a non-negative number"}

IsRangeError(e) ==
    /\ e.kind = "ValueValidation"
    /\ e.msg \in {"must be greater than one", "must be a number no more than 6"}

IsPathError(e) == e.kind = "ValueValidation" /\ e.arg = "input" /\ e.msg = "must be an existing directory"

IsGroupConflict(e, members) == e.kind = "ArgumentConflict" /\ {e.arg} \cup e.with = members

IsDependencyError(e) == e.kind = "MissingRequiredArgument" /\ "crop" \in e.with

(* <input-dir> <output> --<o>=<s> and nothing else.                        *)
IsProbe(o) ==
    /\ Len(argv) = 3
    /\ argv[1].kind = "pos" /\ FsKind(argv[1].path) = "dir"
    /\ argv[2].kind = "pos"
    /\ argv[3].kind = "opt" /\ argv[3].id = o

-----------------------------------------------------------------------------
(* C1, as stated: with valid positionals and --ratio N alone, N an integer *)
(* <= 0 or non-numeric fails, and every integer N > 0 succeeds with        *)
(* ratio = N.                                                              *)
C1_AsStated ==
    (Done /\ IsProbe("ratio")) =>
        LET s == argv[3].val IN
        IF IsIntString(s) /\ IntVal(s) > 0
        THEN result = "ok" /\ cfg[1].ratio = IntVal(s)
        ELSE result = "err"

(* C1, amended: with valid positionals and --ratio N alone, parse succeeds *)
(* with ratio = N exactly for the integers 1 <= N <= 255; an integer <= 0, *)
(* an integer above 255 and a non-numeric N fail.                          *)
C1_RatioValue ==
    (Done /\ IsProbe("ratio")) =>
        LET s == argv[3].val IN
        IF IsIntString(s) /\ IntVal(s) \in 1..U8Max
        THEN result = "ok" /\ cfg[1].ratio = IntVal(s) /\ EffectiveRatio(cfg[1]) = IntVal(s)
        ELSE result = "err" /\ err.kind = "ValueValidation" /\ err.arg = "ratio"

C1_Witness ==
    /\ IsProbe("ratio")
    /\ argv[3].val = <<"2", "5", "5">>
    /\ result = "ok"
    /\ cfg[1].ratio = 255

(* C6, as stated: --oxipng s succeeds with that value when s is an         *)
(* unsigned integer <= 6, fails with a RangeError when s is an unsigned    *)
(* integer > 6, and fails with a ParseError when s is not an integer.      *)
C6_AsStated ==
    (Done /\ IsProbe("oxipng")) =>
        LET s == argv[3].val IN
        IF IsUIntString(s)
        THEN IF IntVal(s) <= 6
             THEN result = "ok" /\ cfg[1].oxipng = IntVal(s)
             ELSE result = "err" /\ IsRangeError(err)
        ELSE result = "err" /\ IsParseError(err)

(* C6, amended: --oxipng s succeeds with that value when s is an unsigned  *)
(* integer <= 6, fails with a RangeError when s is an unsigned integer in  *)
(* 7..255, and fails with the integer parser's error (a ParseError) when s *)
(* is not an integer or exceeds 255.                                       *)
C6_OxipngValue ==
    (Done /\ IsProbe("oxipng")) =>
        LET s == argv[3].val IN
        IF IsUIntString(s) /\ IntVal(s) <= U8Max
        THEN IF IntVal(s) <= 6
             THEN result = "ok" /\ cfg[1].oxipng = IntVal(s)
             ELSE result = "err" /\ IsRangeError(err) /\ err.arg = "oxipng"
        ELSE result = "err" /\ IsParseError(err) /\ err.arg = "oxipng"

C6_Witness ==
    /\ IsProbe("oxipng")
    /\ argv[3].val = <<"7">>
    /\ result = "err"
    /\ IsRangeError(err)

(* C7, as stated: the positive-integer validator of --ratio and --zopfli   *)
(* accepts exactly the unsigned integers > 0; a rejected string that is a  *)
(* valid integer fails with a RangeError, and a ParseError is reported     *)
(* only for a string that is not numeric.                                  *)
C7_AsStated ==
    \A o \in {"ratio", "zopfli"} :
        (Done /\ IsProbe(o)) =>
            LET s == argv[3].val IN
            /\ (result = "ok") <=> (IsUIntString(s) /\ IntVal(s) > 0)
            /\ (result = "err" /\ IsUIntString(s)) => IsRangeError(err)
            /\ (result = "err" /\ IsParseError(err)) => ~IsUIntString(s)

(* C7, amended: the positive-integer validator of --ratio and --zopfli     *)
(* accepts exactly the unsigned integers 1..255 and yields that value; it  *)
(* rejects the value zero with a RangeError and rejects every other string *)
(* - non-numeric or greater than 255 - with the integer parser's error     *)
(* (a ParseError).                                                         *)
C7_PositiveValidator ==
    \A o \in {"ratio", "zopfli"} :
        (Done /\ IsProbe(o)) =>
            LET s == argv[3].val IN
            /\ (result = "ok") <=> (IsUIntString(s) /\ IntVal(s) \in 1..U8Max)
            /\ result = "ok" => vals[o] = IntVal(s)
            /\ result = "err" =>
                 /\ err.arg = o
                 /\ IF IsUIntString(s) /\ IntVal(s) = 0 THEN IsRangeError(err) ELSE IsParseError(err)

C7_Witness ==
    /\ IsProbe("zopfli")
    /\ argv[3].val = <<"0">>
    /\ result = "err"
    /\ IsRangeError(err)

-----------------------------------------------------------------------------
(* C2: an argument vector that supplies both --ratio (with a valid value)  *)
(* and --retina always fails, and when every token is accepted on its own  *)
(* the failure is the conflict of the pixel_ratio group, whichever of the  *)
(* two comes first; with only one of the two supplied (and nothing else    *)
(* wrong) parse succeeds.                                                  *)
C2_PixelRatioGroup ==
    Done =>
        /\ PixelRatioConflict => result = "err"
        /\ (PixelRatioConflict /\ TokensAccepted) =>
              IsGroupConflict(err, {"ratio", "retina"})
        /\ (WellFormed /\ (Supplied("ratio") \/ Supplied("retina"))) => result = "ok"

C2_Witness ==
    /\ result = "err"
    /\ TokensAccepted
    /\ \E i \in Indexes("retina"), j \in Indexes("ratio") : i < j
    /\ IsGroupConflict(err, {"ratio", "retina"})

(* C3: in every configuration produced, the effective pixel ratio is 2 if  *)
(* --retina was supplied, else the value of --ratio if one was supplied,   *)
(* else the default 1.                                                     *)
C3_EffectiveRatio ==
    result = "ok" =>
        EffectiveRatio(cfg[1]) =
            IF Supplied("retina") THEN 2
            ELSE IF Supplied("ratio") THEN IntVal(argv[CHOOSE i \in Indexes("ratio") : TRUE].val)
            ELSE 1

C3_Witness ==
    /\ result = "ok"
    /\ Supplied("ratio")
    /\ EffectiveRatio(cfg[1]) = 3

(* C4: no configuration has both oxipng and zopfli set; an argument vector *)
(* supplying both fails, with the conflict of the optlevel group when      *)
(* every token is accepted on its own and the pixel_ratio group is not     *)
(* violated; one member of each group together is no conflict.             *)
C4_OptlevelGroup ==
    Done =>
        /\ result = "ok" => ~(cfg[1].oxipng # None /\ cfg[1].zopfli # None)
        /\ OptlevelConflict => result = "err"
        /\ (OptlevelConflict /\ TokensAccepted /\ ~PixelRatioConflict) =>
              IsGroupConflict(err, {"oxipng", "zopfli"})
        /\ (WellFormed /\ (Supplied("oxipng") \/ Supplied("zopfli"))) =>
              /\ result = "ok"
              /\ (cfg[1].oxipng # None) <=> Supplied("oxipng")
              /\ (cfg[1].zopfli # None) <=> Supplied("zopfli")

C4_Witness ==
    /\ result = "err"
    /\ TokensAccepted
    /\ \E i \in Indexes("zopfli"), j \in Indexes("oxipng") : i < j
    /\ IsGroupConflict(err, {"oxipng", "zopfli"})

(* C5: include_center implies crop in every configuration produced;        *)
(* --include-center without --crop fails, with a dependency error when     *)
(* nothing else is wrong; --include-center with --crop, in either order,   *)
(* and --crop alone succeed.                                               *)
C5_IncludeCenterRequiresCrop ==
    Done =>
        /\ result = "ok" => (cfg[1].include_center => cfg[1].crop)
        /\ MissingCrop => result = "err"
        /\ (MissingCrop /\ TokensAccepted /\ ~PixelRatioConflict /\ ~OptlevelConflict) =>
              IsDependencyError(err)
        /\ (WellFormed /\ Supplied("crop")) =>
              /\ result = "ok"
              /\ cfg[1].crop
              /\ cfg[1].include_center <=> Supplied("include_center")

C5_Witness ==
    /\ result = "err"
    /\ Supplied("include_center")
    /\ ~Supplied("crop")
    /\ Cardinality(PosIndexes) = 2
    /\ IsDependencyError(err)

(* C8: parse succeeds only if the first positional is an existing          *)
(* directory, and then input is that path unchanged; a first positional    *)
(* that is absent or a regular file fails with a PathError (when no token  *)
(* before it is rejected); the output positional is taken as given,        *)
(* whatever it names on the file system.                                   *)
C8_InputDirectory ==
    Done =>
        /\ result = "ok" =>
              /\ Cardinality(PosIndexes) = 2
              /\ FsKind(argv[FirstPos].path) = "dir"
              /\ cfg[1].input = argv[FirstPos].path
              /\ cfg[1].output = argv[SecondPos].path
        /\ (BadInput /\ NoRepeat /\ \A i \in BadValueIndexes : i > FirstPos) => IsPathError(err)
        /\ WellFormed => result = "ok"

C8_Witness ==
    /\ result = "err"
    /\ PosIndexes # {}
    /\ FsKind(argv[FirstPos].path) = "file"
    /\ IsPathError(err)

(* The invariants of a configuration.                                      *)
ValidCli(c) ==
    /\ FsKind(c.input) = "dir"
    /\ c.ratio \in 1..U8Max
    /\ c.spacing \in 0..U8Max
    /\ c.oxipng \in {None} \cup 0..6
    /\ c.zopfli \in {None} \cup 1..U8Max
    /\ ~(c.oxipng # None /\ c.zopfli # None)
    /\ c.include_center => c.crop
    /\ ~(c.retina /\ Supplied("ratio"))

RuleViolated ==
    \/ BadValueIndexes # {}
    \/ BadInput
    \/ PixelRatioConflict
    \/ OptlevelConflict
    \/ MissingCrop

(* C9: parse ends either with a configuration that satisfies every         *)
(* invariant and no error, or with an error and no configuration; no       *)
(* configuration exists before the end, and none is produced when any      *)
(* per-field or cross-field rule is violated.                              *)
C9_AllOrNothing ==
    /\ result = "running" => (cfg = <<>> /\ err = NoErr)
    /\ result = "ok" => (Len(cfg) = 1 /\ ValidCli(cfg[1]) /\ err = NoErr /\ ~RuleViolated)
    /\ result = "err" => (cfg = <<>> /\ err # NoErr)
    /\ RuleViolated => cfg = <<>>

C9_Witness ==
    /\ result = "err"
    /\ cfg = <<>>
    /\ err.kind = "ValueValidation"
    /\ err.arg = "spacing"
    /\ Cardinality(PosIndexes) = 2

FirstBadValue == CHOOSE i \in BadValueIndexes : \A j \in BadValueIndexes : i <= j

(* C10: when an argument vector (no option given twice, at most two        *)
(* positionals) has a value its own validator rejects and also violates a  *)
(* cross-field rule, the failure reported is a per-field one - that of the *)
(* first rejected value, a ParseError or RangeError unless the input path  *)
(* is rejected earlier - and never the group conflict or dependency error. *)
C10_PerFieldFirst ==
    (/\ Done
     /\ BadValueIndexes # {}
     /\ PixelRatioConflict \/ OptlevelConflict \/ MissingCrop
     /\ NoRepeat
     /\ Cardinality(PosIndexes) <= 2) =>
        /\ result = "err"
        /\ err.kind = "ValueValidation"
        /\ IF BadInput /\ FirstPos < FirstBadValue
           THEN IsPathError(err)
           ELSE /\ err.arg = argv[FirstBadValue].id
                /\ IsParseError(err) \/ IsRangeError(err)

C10_Witness ==
    /\ result = "err"
    /\ \E i \in Indexes("retina"), j \in Indexes("ratio") : i < j /\ argv[j].val = <<"x">>
    /\ err.arg = "ratio"
    /\ IsParseError(err)

====
